---- MODULE Spec2Model ----
(***************************************************************************)
(* QuizYoSelf (src/streamlit_app.py): the QuizManager class and the        *)
(* Streamlit pages that drive it.                                          *)
(*                                                                         *)
(* Text is a sequence of characters (one-character strings, or a word      *)
(* standing for a run of non-blank characters); " " is the blank that      *)
(* str.strip() removes.  A Python dict whose order matters is a sequence   *)
(* of its entries in insertion order.  An optional value is a sequence of  *)
(* length 0 (None) or 1.                                                   *)
(*                                                                         *)
(* Not modelled: datetime.now() (timestamp, start_time, the export file    *)
(* names): no condition of the code reads them.                            *)
(***************************************************************************)
EXTENDS Integers, Sequences, FiniteSets, TLC

VARIABLES
    quizzes,            \* QuizManager.quizzes: class name -> pool
    history,            \* QuizManager.history
    current_stats,      \* QuizManager.current_stats
    aliased,            \* indices of history whose per-chapter dicts are the
                        \* very objects current_stats['chapter_stats'] holds
    current_quiz,       \* st.session_state.current_quiz (None: <<>>)
    current_question,   \* st.session_state.current_question
    quiz_started,       \* st.session_state.quiz_started
    quiz_completed,     \* st.session_state.quiz_completed
    user_answers,       \* st.session_state.user_answers
    option_mapping,     \* st.session_state.option_mapping
    uploaded_file,      \* the file_uploader widget's value
    load_out,           \* what the current run's load_csv call returned
    rerun_pending       \* st.rerun() was called: the script runs once more

vars == <<quizzes, history, current_stats, aliased, current_quiz,
          current_question, quiz_started, quiz_completed, user_answers,
          option_mapping, uploaded_file, load_out, rerun_pending>>

manager_vars == <<quizzes, history, current_stats, aliased>>
session_vars == <<current_quiz, current_question, quiz_started,
                  quiz_completed, user_answers, option_mapping>>

----------------------------------------------------------------------------
(* Bounds *)

\* the lines of an uploaded file after its header
MaxRows == 2
\* the questions of a pool a session is drawn from
MaxPool == 3
\* the sessions the history can hold before no further quiz is started
MaxHistory == 2
\* the longest list of which every order is tried
MaxShuffled == 3
\* the lowest places of the radio button the user's choice falls on
MaxPick == 1
\* answers scored into one accumulator by direct calls of submit_answer
MaxCalls == 2
\* sessions saved by direct calls of save_quiz_session
MaxSaved == 1

----------------------------------------------------------------------------
(* Values *)

None == <<>>
Some(x) == <<x>>

Sp == " "

RECURSIVE lstrip(_)
lstrip(s) == IF s # <<>> /\ Head(s) = Sp THEN lstrip(Tail(s)) ELSE s

RECURSIVE rstrip(_)
rstrip(s) ==
    IF s # <<>> /\ s[Len(s)] = Sp THEN rstrip(SubSeq(s, 1, Len(s) - 1)) ELSE s

\* str.strip()
strip(s) == rstrip(lstrip(s))

Range(s) == {s[i] : i \in 1..Len(s)}

RECURSIVE SumSeq(_)
SumSeq(s) == IF s = <<>> THEN 0 ELSE Head(s) + SumSeq(Tail(s))

\* sum(len(q) for q in chapters.values())
total_questions_of(pool) ==
    SumSeq([i \in 1..Len(pool) |-> Len(pool[i].questions)])

----------------------------------------------------------------------------
(* QuizManager.load_csv *)

required_columns ==
    <<"Chapter", "Question Text", "Reasoning", "Correct_Answer",
      "Alternative_1", "Alternative_2", "Alternative_3">>

\* dict(zip(fieldnames, row)): of two equal field names the last one wins
field_index(fieldnames, field) ==
    CHOOSE i \in 1..Len(fieldnames) :
        /\ fieldnames[i] = field
        /\ \A j \in (i + 1)..Len(fieldnames) : fieldnames[j] # field

\* row.get(field) of a csv.DictReader row: a field the line is too short for
\* holds None (restval)
row_get(fieldnames, row, field) ==
    IF field \notin Range(fieldnames) THEN None
    ELSE LET i == field_index(fieldnames, field)
         IN  IF i <= Len(row) THEN Some(row[i]) ELSE None

\* any(row.values()): a line longer than the header holds its extra cells as a
\* non-empty list under the key None (restkey)
any_values(fieldnames, row) ==
    \/ Len(row) > Len(fieldnames)
    \/ \E f \in Range(fieldnames) :
           /\ row_get(fieldnames, row, f) # None
           /\ row_get(fieldnames, row, f)[1] # <<>>

\* as missing_fields, without the test of the stripped text
missing_fields_unstripped(fieldnames, row) ==
    SelectSeq(required_columns,
              LAMBDA f : \/ row_get(fieldnames, row, f) = None
                         \/ row_get(fieldnames, row, f)[1] = <<>>)

missing_fields(fieldnames, row) ==
    SelectSeq(required_columns,
              LAMBDA f : \/ row_get(fieldnames, row, f) = None
                         \/ row_get(fieldnames, row, f)[1] = <<>>
                         \/ strip(row_get(fieldnames, row, f)[1]) = <<>>)

\* as make_question, the chapter taken as it stands in the cell
make_question_raw_chapter(fieldnames, row) ==
    [chapter        |-> row_get(fieldnames, row, "Chapter")[1],
     question_text  |-> strip(row_get(fieldnames, row, "Question Text")[1]),
     reasoning      |-> strip(row_get(fieldnames, row, "Reasoning")[1]),
     correct_answer |-> strip(row_get(fieldnames, row, "Correct_Answer")[1]),
     alternatives   |-> <<strip(row_get(fieldnames, row, "Alternative_1")[1]),
                          strip(row_get(fieldnames, row, "Alternative_2")[1]),
                          strip(row_get(fieldnames, row, "Alternative_3")[1])>>]

make_question(fieldnames, row) ==
    [chapter        |-> strip(row_get(fieldnames, row, "Chapter")[1]),
     question_text  |-> strip(row_get(fieldnames, row, "Question Text")[1]),
     reasoning      |-> strip(row_get(fieldnames, row, "Reasoning")[1]),
     correct_answer |-> strip(row_get(fieldnames, row, "Correct_Answer")[1]),
     alternatives   |-> <<strip(row_get(fieldnames, row, "Alternative_1")[1]),
                          strip(row_get(fieldnames, row, "Alternative_2")[1]),
                          strip(row_get(fieldnames, row, "Alternative_3")[1])>>]

\* the loop over the reader's rows; csv.DictReader itself passes over the
\* lines that hold no cell at all
RECURSIVE read_questions(_, _)
read_questions(fieldnames, rows) ==
    IF rows = <<>> THEN <<>>
    ELSE LET row  == Head(rows)
             rest == read_questions(fieldnames, Tail(rows))
         IN  IF row = <<>> THEN rest
             ELSE IF ~any_values(fieldnames, row) THEN rest
             ELSE IF missing_fields(fieldnames, row) # <<>> THEN rest
             ELSE <<make_question(fieldnames, row)>> \o rest

chapter_index(pool, chapter) ==
    CHOOSE i \in 1..Len(pool) : pool[i].chapter = chapter

chapters_of(pool) == [i \in 1..Len(pool) |-> pool[i].chapter]

\* "Organize questions by chapter"
RECURSIVE organize(_, _)
organize(chapter_questions, questions) ==
    IF questions = <<>> THEN chapter_questions
    ELSE LET question == Head(questions)
             chapter  == question.chapter
         IN  organize(
                 IF chapter \notin Range(chapters_of(chapter_questions))
                 THEN Append(chapter_questions,
                             [chapter |-> chapter, questions |-> <<question>>])
                 ELSE [chapter_questions EXCEPT
                          ![chapter_index(chapter_questions, chapter)].questions =
                              Append(@, question)],
                 Tail(questions))

Failure(message, found) ==
    [ok |-> FALSE, pool |-> <<>>, error |-> message, found |-> found]

Success(chapter_questions) ==
    [ok |-> TRUE, pool |-> chapter_questions, error |-> "", found |-> <<>>]

\* as load_rows, the header refused only when it holds none of the columns
load_rows_any_column(fieldnames, rows) ==
    IF \A col \in Range(required_columns) : col \notin Range(fieldnames)
    THEN Failure("CSV missing required columns. Found: ", fieldnames)
    ELSE LET questions == read_questions(fieldnames, rows)
         IN  IF questions = <<>>
             THEN Failure("No valid questions found in CSV file.", <<>>)
             ELSE Success(organize(<<>>, questions))

\* lines 45-97, on a reader whose field names are given
load_rows(fieldnames, rows) ==
    IF \E col \in Range(required_columns) : col \notin Range(fieldnames)
    THEN Failure("CSV missing required columns. Found: ", fieldnames)
    ELSE LET questions == read_questions(fieldnames, rows)
         IN  IF questions = <<>>
             THEN Failure("No valid questions found in CSV file.", <<>>)
             ELSE Success(organize(<<>>, questions))

\* The files on disk (os.path.exists, os.path.getsize).
Disk == [name \in {"empty.csv"} |-> [utf8 |-> TRUE, fieldnames |-> None, rows |-> <<>>]]

\* A file's content is [utf8, fieldnames, rows]: whether its bytes decode,
\* its header line (None when there is no line at all) and the cells of its
\* other lines.  `filename` and `file_content` are optional.
load_csv(filename, file_content) ==
    IF file_content # None
    THEN LET content == file_content[1]
         IN  IF ~content.utf8 THEN Failure("Error loading CSV: ", <<>>)
             \* reader.fieldnames is None: `col in None` raises
             ELSE IF content.fieldnames = None
             THEN Failure("Error loading CSV: ", <<>>)
             ELSE load_rows(content.fieldnames[1], content.rows)
    \* os.path.exists(None) raises
    ELSE IF filename = None THEN Failure("Error loading CSV: ", <<>>)
    ELSE IF filename[1] \notin DOMAIN Disk
    THEN Failure("File not found. Please check the filename.", <<>>)
    ELSE IF Disk[filename[1]].fieldnames = None /\ Disk[filename[1]].rows = <<>>
    THEN Failure("CSV file is empty.", <<>>)
    \* the reader is first read after the with-block has closed the file
    ELSE Failure("Error loading CSV: ", <<>>)

----------------------------------------------------------------------------
(* QuizManager.start_quiz, submit_answer, save_quiz_session *)

EmptyDict == [k \in {} |-> 0]

\* QuizManager.__init__: current_stats has no class_name and no
\* selected_chapters yet
initial_stats ==
    [total_questions   |-> 0,
     correct_answers   |-> 0,
     chapter_stats     |-> EmptyDict,
     missed_questions  |-> <<>>,
     class_name        |-> None,
     selected_chapters |-> None]

\* as reset_stats, the list of missed questions carried over
reset_stats_keeping_missed(class_name, selected_chapters) ==
    [total_questions   |-> 0,
     correct_answers   |-> 0,
     chapter_stats     |-> EmptyDict,
     missed_questions  |-> current_stats.missed_questions,
     class_name        |-> Some(class_name),
     selected_chapters |-> Some(selected_chapters)]

\* "Reset current stats"
reset_stats(class_name, selected_chapters) ==
    [total_questions   |-> 0,
     correct_answers   |-> 0,
     chapter_stats     |-> EmptyDict,
     missed_questions  |-> <<>>,
     class_name        |-> Some(class_name),
     selected_chapters |-> Some(selected_chapters)]

\* "Collect all questions from selected chapters"
RECURSIVE collect_questions(_, _)
collect_questions(selected_chapters, chapter_questions) ==
    IF selected_chapters = <<>> THEN <<>>
    ELSE LET chapter == Head(selected_chapters)
             rest == collect_questions(Tail(selected_chapters), chapter_questions)
         IN  IF chapter \in Range(chapters_of(chapter_questions))
             THEN chapter_questions[chapter_index(chapter_questions, chapter)].questions
                      \o rest
             ELSE rest

\* the orders random.shuffle is taken to produce of a list of n elements: all
\* n! of them up to MaxShuffled elements, the n rotations beyond
orderings ==
    [n \in 0..(MaxPool + 4) |->
        IF n <= MaxShuffled
        THEN {p \in [1..n -> 1..n] : \A i, j \in 1..n : i # j => p[i] # p[j]}
        ELSE {[i \in 1..n |-> ((i + r - 1) % n) + 1] : r \in 0..(n - 1)}]

\* random.shuffle(list)
shuffle(list) ==
    {[i \in 1..Len(list) |-> list[p[i]]] : p \in orderings[Len(list)]}

\* as slice_to, one element further
slice_to_one_more(list, n) ==
    SubSeq(list, 1, IF n + 1 < Len(list) THEN n + 1 ELSE Len(list))

\* list[:n]
slice_to(list, n) ==
    IF n >= 0 THEN SubSeq(list, 1, IF n < Len(list) THEN n ELSE Len(list))
    ELSE SubSeq(list, 1, IF Len(list) + n > 0 THEN Len(list) + n ELSE 0)

\* as pool_after_start, had all_questions been the list of the first selected
\* chapter itself rather than a list of its own
pool_after_start_in_place(chapter_questions, selected_chapters, shuffled) ==
    [i \in 1..Len(chapter_questions) |->
        IF chapter_questions[i].chapter = Head(selected_chapters)
        THEN [chapter_questions[i] EXCEPT !.questions = shuffled]
        ELSE chapter_questions[i]]

\* chapter_questions as the call leaves it: all_questions is a new list that
\* extend() fills with the chapters' questions, so the shuffle and the slice
\* act on that list and every chapter keeps its own
pool_after_start(chapter_questions, selected_chapters, shuffled) ==
    chapter_questions

\* The outcomes of start_quiz: the statistics are reset before anything is
\* looked at; `questions` is what the call returns with True, and
\* `chapter_questions` the argument as the call leaves it.
start_quiz(class_name, selected_chapters, num_questions, chapter_questions) ==
    LET stats == reset_stats(class_name, selected_chapters)
        all_questions == collect_questions(selected_chapters, chapter_questions)
    IN  IF all_questions = <<>>
        THEN {[ok |-> FALSE, questions |-> <<>>, stats |-> stats,
               error |-> "No questions available for selected chapters.",
               chapter_questions |-> chapter_questions]}
        ELSE {[ok |-> TRUE, questions |-> slice_to(shuffled, num_questions),
               stats |-> stats, error |-> "",
               chapter_questions |->
                   pool_after_start(chapter_questions, selected_chapters, shuffled)] :
                 shuffled \in shuffle(all_questions)}

\* as is_correct_answer, the answer stripped before it is compared
is_correct_answer_stripped(question, user_answer) ==
    strip(user_answer) = question.correct_answer

is_correct_answer(question, user_answer) ==
    user_answer = question.correct_answer

\* missed_q = question.copy() with user_answer and question_number added
missed_record(question, user_answer, question_number) ==
    [chapter         |-> question.chapter,
     question_text   |-> question.question_text,
     reasoning       |-> question.reasoning,
     correct_answer  |-> question.correct_answer,
     alternatives    |-> question.alternatives,
     user_answer     |-> user_answer,
     question_number |-> question_number]

\* as chapter_entry, `correct` counted whether or not the answer was right
chapter_entry_counting_all(chapter_stats, chapter, is_correct) ==
    LET old == IF chapter \in DOMAIN chapter_stats THEN chapter_stats[chapter]
               ELSE [asked |-> 0, correct |-> 0]
    IN  [asked |-> old.asked + 1, correct |-> old.correct + 1]

\* "Update chapter stats": the entry of the question's chapter after the call
chapter_entry(chapter_stats, chapter, is_correct) ==
    LET old == IF chapter \in DOMAIN chapter_stats THEN chapter_stats[chapter]
               ELSE [asked |-> 0, correct |-> 0]
    IN  [asked   |-> old.asked + 1,
         correct |-> IF is_correct THEN old.correct + 1 ELSE old.correct]

\* A manager is [history, current_stats, aliased].  The per-chapter dict of a
\* chapter already counted is changed in place, so every history entry that
\* holds that very dict changes with it; a chapter counted for the first time
\* gets a dict of its own.
submit_answer(self, question, user_answer, question_number) ==
    LET is_correct == is_correct_answer(question, user_answer)
        stats == self.current_stats
        chapter == question.chapter
        entry == chapter_entry(stats.chapter_stats, chapter, is_correct)
        known == chapter \in DOMAIN stats.chapter_stats
    IN  [is_correct |-> is_correct,
         self |->
           [self EXCEPT
              !.current_stats =
                  [stats EXCEPT
                     !.total_questions = @ + 1,
                     !.correct_answers = IF is_correct THEN @ + 1 ELSE @,
                     !.missed_questions =
                         IF is_correct THEN @
                         ELSE Append(@, missed_record(question, user_answer,
                                                      question_number)),
                     !.chapter_stats =
                         [c \in DOMAIN @ \cup {chapter} |->
                             IF c = chapter THEN entry ELSE @[c]]],
              !.history =
                  [i \in 1..Len(@) |->
                      IF known /\ i \in self.aliased
                               /\ chapter \in DOMAIN @[i].chapter_stats
                      THEN [@[i] EXCEPT !.chapter_stats[chapter] = entry]
                      ELSE @[i]]]]

RECURSIVE GCD(_, _)
GCD(a, b) == IF b = 0 THEN a ELSE GCD(b, a % b)

\* as percentage_of, with the integer division correct * 100 // total
percentage_of_floor(correct_answers, total_questions) ==
    <<(correct_answers * 100) \div total_questions, 1>>

\* as percentage_of, without the factor 100
percentage_of_fraction(correct_answers, total_questions) ==
    LET g == GCD(correct_answers, total_questions)
    IN  <<correct_answers \div g, total_questions \div g>>

\* correct_answers / total_questions * 100, as the fraction <<p, q>> in lowest
\* terms (total_questions > 0)
percentage_of(correct_answers, total_questions) ==
    LET g == GCD(correct_answers * 100, total_questions)
    IN  <<(correct_answers * 100) \div g, total_questions \div g>>

session_data_of(stats) ==
    [class_name        |-> stats.class_name[1],
     total_questions   |-> stats.total_questions,
     correct_answers   |-> stats.correct_answers,
     percentage        |-> percentage_of(stats.correct_answers,
                                         stats.total_questions),
     missed_questions  |-> Len(stats.missed_questions),
     chapter_stats     |-> stats.chapter_stats,
     selected_chapters |-> IF stats.selected_chapters = None THEN <<>>
                           ELSE stats.selected_chapters[1]]

\* as save_quiz_session, a session without answers recorded as well
save_quiz_session_always(self) ==
    IF self.current_stats.class_name = None
    THEN [ret |-> "KeyError", self |-> self]
    ELSE [ret |-> "True",
          self |-> [self EXCEPT
                      !.history =
                          Append(@, IF self.current_stats.total_questions > 0
                                    THEN session_data_of(self.current_stats)
                                    ELSE [session_data_of(
                                              [self.current_stats EXCEPT
                                                  !.total_questions = 1])
                                            EXCEPT !.total_questions = 0]),
                      !.aliased = @ \cup {Len(self.history) + 1}]]

\* ret is "True", "False", or "KeyError" when current_stats['class_name'] is
\* read and the key is not there.  The copy of chapter_stats is shallow: the
\* new entry holds the accumulator's own per-chapter dicts.
save_quiz_session(self) ==
    IF self.current_stats.total_questions > 0
    THEN IF self.current_stats.class_name = None
         THEN [ret |-> "KeyError", self |-> self]
         ELSE [ret |-> "True",
               self |-> [self EXCEPT
                           !.history = Append(@, session_data_of(self.current_stats)),
                           !.aliased = @ \cup {Len(self.history) + 1}]]
    ELSE [ret |-> "False", self |-> self]

Self == [history |-> history, current_stats |-> current_stats, aliased |-> aliased]

\* what "Review Missed Questions" lists and "Export History" writes to the
\* missed-questions file
missed_questions_shown == current_stats.missed_questions

----------------------------------------------------------------------------
(* QuizManager.get_history_df and the Quiz History page *)

Digit(d) == <<"0", "1", "2", "3", "4", "5", "6", "7", "8", "9">>[d + 1]

\* str(n) for n >= 0, as a sequence of characters
RECURSIVE digits_of(_)
digits_of(n) ==
    IF n < 10 THEN <<Digit(n)>> ELSE digits_of(n \div 10) \o <<Digit(n % 10)>>

\* the percentage <<p, q>> in tenths, as the format .1f rounds it: to the
\* nearest tenth, a tie to the even one
tenths_of(percentage) ==
    LET n == 10 * percentage[1]
        q == percentage[2]
        f == n \div q
        r == n % q
    IN  IF 2 * r < q THEN f
        ELSE IF 2 * r > q THEN f + 1
        ELSE IF f % 2 = 0 THEN f ELSE f + 1

\* f"{session['percentage']:.1f}%"
format_percentage(percentage) ==
    LET t == tenths_of(percentage)
    IN  digits_of(t \div 10) \o <<".", Digit(t % 10), "%">>

\* the code point of a character of a formatted percentage
ord ==
    [ch \in {"%", ".", "0", "1", "2", "3", "4", "5", "6", "7", "8", "9"} |->
        IF ch = "%" THEN 37
        ELSE IF ch = "." THEN 46
        ELSE 48 + (CHOOSE d \in 0..9 : Digit(d) = ch)]

\* a < b for two str: the order max() uses on the strings of a column
RECURSIVE str_lt(_, _)
str_lt(a, b) ==
    IF b = <<>> THEN FALSE
    ELSE IF a = <<>> THEN TRUE
    ELSE IF ord[Head(a)] # ord[Head(b)] THEN ord[Head(a)] < ord[Head(b)]
    ELSE str_lt(Tail(a), Tail(b))

\* the column 'Percentage' of get_history_df()
Percentage_column(sessions) ==
    [i \in 1..Len(sessions) |-> format_percentage(sessions[i].percentage)]

\* history_df['Percentage'].max(), the value of the metric "Best Score"
\* (the history is not empty)
best_score(sessions) ==
    CHOOSE s \in Range(Percentage_column(sessions)) :
        \A t \in Range(Percentage_column(sessions)) : ~str_lt(s, t)

----------------------------------------------------------------------------
(* The pages: load_quiz_set, take_quiz, display_quiz_question *)

Init ==
    /\ quizzes = EmptyDict
    /\ history = <<>>
    /\ current_stats = initial_stats
    /\ aliased = {}
    /\ current_quiz = None
    /\ current_question = 0
    /\ quiz_started = FALSE
    /\ quiz_completed = FALSE
    /\ user_answers = <<>>
    /\ option_mapping = EmptyDict
    /\ uploaded_file = None
    /\ load_out = None
    /\ rerun_pending = FALSE

\* pd.read_csv(uploaded_file) shows the preview, or raises and leaves the page
\* without its "Load Questions" button: no columns to parse, undecodable bytes
previewable(content) == content.utf8 /\ content.fieldnames # None

\* "Choose a CSV file"
Upload(content) ==
    /\ ~rerun_pending
    /\ uploaded_file' = Some(content)
    /\ load_out' = None
    /\ UNCHANGED <<manager_vars, session_vars, rerun_pending>>

\* as LoadQuestions, the result filed whether or not the load succeeded
LoadQuestions_filing_failures(class_name) ==
    /\ ~rerun_pending
    /\ uploaded_file # None
    /\ previewable(uploaded_file[1])
    /\ LET result == load_csv(None, uploaded_file)
       IN  /\ load_out' = Some(result)
           /\ quizzes' = [c \in DOMAIN quizzes \cup {class_name} |->
                             IF c = class_name THEN result.pool ELSE quizzes[c]]
    /\ UNCHANGED <<history, current_stats, aliased, session_vars, uploaded_file,
                   rerun_pending>>

\* the "Load Questions" button
LoadQuestions(class_name) ==
    /\ ~rerun_pending
    /\ uploaded_file # None
    /\ previewable(uploaded_file[1])
    /\ LET result == load_csv(None, uploaded_file)
       IN  /\ load_out' = Some(result)
           /\ quizzes' = IF result.ok
                         THEN [c \in DOMAIN quizzes \cup {class_name} |->
                                  IF c = class_name THEN result.pool ELSE quizzes[c]]
                         ELSE quizzes
    /\ UNCHANGED <<history, current_stats, aliased, session_vars, uploaded_file,
                   rerun_pending>>

\* options = question['alternatives'] + [question['correct_answer']]
options_of(question) == question.alternatives \o <<question.correct_answer>>

\* What one showing of the current question can leave behind: the shuffled
\* options, and the option the radio button holds.
displays(question) ==
    {[options |-> options, user_answer |-> options[i]] :
        options \in shuffle(options_of(question)), i \in 1..MaxPick}

displayed == quiz_started /\ current_quiz # None
                 /\ current_question < Len(current_quiz)

\* as Display, the radio button's value not written to the slot
Display_without_record(d) ==
    /\ option_mapping' =
           [i \in DOMAIN option_mapping \cup {current_question} |->
               IF i = current_question THEN d.options ELSE option_mapping[i]]
    /\ user_answers' = user_answers

\* display_quiz_question up to its buttons (lines 369-398); positions count
\* from 0
Display(d) ==
    /\ option_mapping' =
           [i \in DOMAIN option_mapping \cup {current_question} |->
               IF i = current_question THEN d.options ELSE option_mapping[i]]
    /\ user_answers' =
           [user_answers EXCEPT ![current_question + 1] = Some(d.user_answer)]

\* a run of the script in which no button is pressed: the user picks an option
SelectAnswer ==
    /\ ~rerun_pending
    /\ displayed
    /\ \E d \in displays(current_quiz[current_question + 1]) : Display(d)
    /\ load_out' = None
    /\ UNCHANGED <<manager_vars, current_quiz, current_question, quiz_started,
                   quiz_completed, uploaded_file, rerun_pending>>

\* the run st.rerun() asks for
Rerun ==
    /\ rerun_pending
    /\ rerun_pending' = FALSE
    /\ IF displayed
       THEN \E d \in displays(current_quiz[current_question + 1]) : Display(d)
       ELSE UNCHANGED <<user_answers, option_mapping>>
    /\ load_out' = None
    /\ UNCHANGED <<manager_vars, current_quiz, current_question, quiz_started,
                   quiz_completed, uploaded_file>>

\* "<- Previous Question"
PreviousQuestion ==
    /\ ~rerun_pending
    /\ displayed
    /\ current_question > 0
    /\ \E d \in displays(current_quiz[current_question + 1]) : Display(d)
    /\ current_question' = current_question - 1
    /\ rerun_pending' = TRUE
    /\ load_out' = None
    /\ UNCHANGED <<manager_vars, current_quiz, quiz_started, quiz_completed,
                   uploaded_file>>

\* as NextQuestion, offered at the last position as well
NextQuestion_past_last ==
    /\ ~rerun_pending
    /\ displayed
    /\ current_question < Len(current_quiz)
    /\ \E d \in displays(current_quiz[current_question + 1]) : Display(d)
    /\ current_question' = current_question + 1
    /\ rerun_pending' = TRUE
    /\ load_out' = None
    /\ UNCHANGED <<manager_vars, current_quiz, quiz_started, quiz_completed,
                   uploaded_file>>

\* "Next Question ->"
NextQuestion ==
    /\ ~rerun_pending
    /\ displayed
    /\ current_question < Len(current_quiz) - 1
    /\ \E d \in displays(current_quiz[current_question + 1]) : Display(d)
    /\ current_question' = current_question + 1
    /\ rerun_pending' = TRUE
    /\ load_out' = None
    /\ UNCHANGED <<manager_vars, current_quiz, quiz_started, quiz_completed,
                   uploaded_file>>

\* as process_answers, the answers numbered from 0
RECURSIVE process_answers_from_zero(_, _, _, _)
process_answers_from_zero(self, questions, answers, i) ==
    IF i >= Len(questions) \/ i >= Len(answers) THEN self
    ELSE process_answers_from_zero(
             IF answers[i + 1] # None
             THEN submit_answer(self, questions[i + 1], answers[i + 1][1], i).self
             ELSE self,
             questions, answers, i + 1)

\* "Process all answers": for i, (q, answer) in enumerate(zip(questions,
\* user_answers)), from the i-th pair on (i counts from 0)
RECURSIVE process_answers(_, _, _, _)
process_answers(self, questions, answers, i) ==
    IF i >= Len(questions) \/ i >= Len(answers) THEN self
    ELSE process_answers(
             IF answers[i + 1] # None
             THEN submit_answer(self, questions[i + 1], answers[i + 1][1], i + 1).self
             ELSE self,
             questions, answers, i + 1)

\* as submit_quiz, the session saved a second time
submit_quiz_saving_twice(self, questions, answers) ==
    save_quiz_session(
        save_quiz_session(process_answers(self, questions, answers, 0)).self).self

\* the body of `if st.button("Submit Quiz")`, lines 415-422
submit_quiz(self, questions, answers) ==
    save_quiz_session(process_answers(self, questions, answers, 0)).self

\* as SubmitQuiz, quiz_started left as it is
SubmitQuiz_staying_started ==
    /\ ~rerun_pending
    /\ displayed
    /\ ~(current_question < Len(current_quiz) - 1)
    /\ \E d \in displays(current_quiz[current_question + 1]) : Display(d)
    /\ LET after == submit_quiz(Self, current_quiz, user_answers')
       IN  /\ history' = after.history
           /\ current_stats' = after.current_stats
           /\ aliased' = after.aliased
    /\ quiz_completed' = TRUE
    /\ rerun_pending' = TRUE
    /\ load_out' = None
    /\ UNCHANGED <<quizzes, current_quiz, current_question, quiz_started,
                   uploaded_file>>

\* "Submit Quiz"
SubmitQuiz ==
    /\ ~rerun_pending
    /\ displayed
    /\ ~(current_question < Len(current_quiz) - 1)
    /\ \E d \in displays(current_quiz[current_question + 1]) : Display(d)
    /\ LET after == submit_quiz(Self, current_quiz, user_answers')
       IN  /\ history' = after.history
           /\ current_stats' = after.current_stats
           /\ aliased' = after.aliased
    /\ quiz_completed' = TRUE
    /\ quiz_started' = FALSE
    /\ rerun_pending' = TRUE
    /\ load_out' = None
    /\ UNCHANGED <<quizzes, current_quiz, current_question, uploaded_file>>

\* st.multiselect: the chosen chapters, in the order chosen
RECURSIVE arrangements(_)
arrangements(S) ==
    {<<>>} \cup UNION {{<<x>> \o rest : rest \in arrangements(S \ {x})} : x \in S}

\* sum(len(chapter_questions[ch]) for ch in selected_chapters)
total_available_of(selected_chapters, chapter_questions) ==
    Len(collect_questions(selected_chapters, chapter_questions))

\* the "Start Quiz" button of take_quiz with the widgets' values
StartQuiz(class_name, selected_chapters, max_questions) ==
    /\ ~rerun_pending
    /\ Len(history) < MaxHistory
    /\ class_name \in DOMAIN quizzes
    /\ selected_chapters \in arrangements(Range(chapters_of(quizzes[class_name])))
    /\ selected_chapters # <<>>
    /\ total_available_of(selected_chapters, quizzes[class_name]) # 0
    /\ max_questions \in 1..total_available_of(selected_chapters, quizzes[class_name])
    /\ \E r \in start_quiz(class_name, selected_chapters, max_questions,
                           quizzes[class_name]) :
          /\ current_stats' = r.stats
          /\ aliased' = {}
          /\ quizzes' = [quizzes EXCEPT ![class_name] = r.chapter_questions]
          /\ IF r.ok
             THEN /\ current_quiz' = r.questions
                  /\ quiz_started' = TRUE
                  /\ quiz_completed' = FALSE
                  /\ current_question' = 0
                  /\ user_answers' = [i \in 1..Len(r.questions) |-> None]
                  /\ rerun_pending' = TRUE
                  /\ UNCHANGED option_mapping
             ELSE /\ IF displayed
                     THEN \E d \in displays(current_quiz[current_question + 1]) :
                              Display(d)
                     ELSE UNCHANGED <<user_answers, option_mapping>>
                  /\ UNCHANGED <<current_quiz, quiz_started, quiz_completed,
                                 current_question, rerun_pending>>
    /\ load_out' = None
    /\ UNCHANGED <<history, uploaded_file>>

----------------------------------------------------------------------------
(* Inputs *)

\* the class names typed on the pages, and those load_csv's results are filed under
PageClassNames == {"bio"}
ClassNames == {"bio", "chem"}

\* the two rows of the worked example: Chapter, Question Text, Reasoning,
\* Correct_Answer, Alternative_1, Alternative_2, Alternative_3
ExampleRow1 == <<<<"Ch1">>, <<"Q1?">>, <<"R1">>, <<"A">>, <<"B">>, <<"C">>, <<"D">>>>
ExampleRow2 == <<<<"Ch2">>, <<"Q2?">>, <<"R2">>, <<"X">>, <<"Y">>, <<"Z">>, <<"W">>>>

\* a row of chapter Ch1 whose cells carry blanks around and inside the text
PaddedRow ==
    <<<<Sp, "Ch1">>, <<"Q3", Sp, "?">>, <<"R3", Sp>>, <<Sp, "A", Sp>>,
      <<"b">>, <<Sp, Sp, "C">>, <<"D">>>>

with_cell(row, i, cell) == [row EXCEPT ![i] = cell]

BlankedColumns == {1, 4, 7}

RowPool ==
    {ExampleRow1, ExampleRow2, PaddedRow}
    \cup {with_cell(ExampleRow1, i, <<>>) : i \in BlankedColumns}
    \cup {with_cell(ExampleRow2, i, <<Sp>>) : i \in BlankedColumns}
    \cup {[i \in 1..7 |-> <<>>],                    \* ",,,,,,"
          SubSeq(ExampleRow1, 1, 6),                \* a line one cell short
          Append(ExampleRow2, <<"extra">>),         \* a line one cell long
          <<>>}                                     \* a line without cells

without_column(i) ==
    SubSeq(required_columns, 1, i - 1) \o SubSeq(required_columns, i + 1, 7)

Headers ==
    {required_columns,
     [i \in 1..7 |-> required_columns[8 - i]],
     <<"Notes">> \o required_columns,
     <<>>}
    \cup {without_column(i) : i \in 1..7}

RowLists == UNION {[1..n -> RowPool] : n \in 0..MaxRows}

\* the uploads whose preview pd.read_csv can show
Contents ==
    {[utf8 |-> TRUE, fieldnames |-> Some(h), rows |-> rows] :
        h \in Headers, rows \in RowLists}

file(fieldnames, rows) ==
    [utf8 |-> TRUE, fieldnames |-> Some(fieldnames), rows |-> rows]

\* the files the user of the pages has at hand
Uploads ==
    {file(required_columns, <<ExampleRow1, ExampleRow2>>),
     file(without_column(4), <<ExampleRow1>>)}

Chapters == {<<"Ch1">>, <<"Ch2">>}

----------------------------------------------------------------------------
(* Specifications *)

Next ==
    \/ \E content \in Uploads : Upload(content)
    \/ \E class_name \in PageClassNames : LoadQuestions(class_name)
    \/ \E class_name \in PageClassNames, selected_chapters \in arrangements(Chapters),
          max_questions \in 1..MaxRows :
          StartQuiz(class_name, selected_chapters, max_questions)
    \/ SelectAnswer
    \/ Rerun
    \/ PreviousQuestion
    \/ NextQuestion
    \/ SubmitQuiz

\* the application, driven through its pages
Spec == Init /\ [][Next]_vars

InitLoad ==
    /\ quizzes = EmptyDict
    /\ history = <<>>
    /\ current_stats = initial_stats
    /\ aliased = {}
    /\ current_quiz = None
    /\ current_question = 0
    /\ quiz_started = FALSE
    /\ quiz_completed = FALSE
    /\ user_answers = <<>>
    /\ option_mapping = EmptyDict
    /\ uploaded_file \in {Some(content) : content \in Contents}
    /\ load_out = None
    /\ rerun_pending = FALSE

NextLoad == \E class_name \in ClassNames : LoadQuestions(class_name)

\* load_csv, called by the "Load Questions" button on every upload of Contents
SpecLoad == InitLoad /\ [][NextLoad]_vars

PoolRows == {ExampleRow1, ExampleRow2, PaddedRow}

\* the pools load_csv makes of up to MaxPool of these rows
Pools ==
    {load_rows(required_columns, rows).pool :
        rows \in UNION {[1..n -> PoolRows] : n \in 1..MaxPool}}

InitStart ==
    /\ quizzes \in {[c \in {"bio"} |-> pool] : pool \in Pools}
    /\ history = <<>>
    /\ current_stats = initial_stats
    /\ aliased = {}
    /\ current_quiz = None
    /\ current_question = 0
    /\ quiz_started = FALSE
    /\ quiz_completed = FALSE
    /\ user_answers = <<>>
    /\ option_mapping = EmptyDict
    /\ uploaded_file = None
    /\ load_out = None
    /\ rerun_pending = FALSE

NextStart ==
    \/ \E selected_chapters \in arrangements(Chapters), max_questions \in 1..MaxPool :
          StartQuiz("bio", selected_chapters, max_questions)
    \/ Rerun

\* the "Start Quiz" button on every pool of Pools
SpecStart == InitStart /\ [][NextStart]_vars

\* what a slot of user_answers can hold for a question: nothing, or a string
\* that is or is not its correct answer
answers_for(question) ==
    {None, Some(question.correct_answer), Some(question.alternatives[1]),
     Some(<<Sp>> \o question.correct_answer)}

\* A session at its last question: the questions are an outcome of start_quiz
\* on a pool of Pools, and the slots hold any of answers_for.
InitSubmit ==
    \E pool \in Pools, selected_chapters \in arrangements(Chapters),
       max_questions \in 1..MaxPool :
       /\ selected_chapters # <<>>
       /\ Range(selected_chapters) \subseteq Range(chapters_of(pool))
       /\ max_questions <= total_available_of(selected_chapters, pool)
       /\ \E r \in start_quiz("bio", selected_chapters, max_questions, pool) :
             /\ quizzes = [c \in {"bio"} |-> pool]
             /\ history = <<>>
             /\ current_stats = r.stats
             /\ aliased = {}
             /\ current_quiz = r.questions
             /\ current_question = Len(r.questions) - 1
             /\ quiz_started = TRUE
             /\ quiz_completed = FALSE
             /\ user_answers \in
                    {u \in [1..Len(r.questions) ->
                               UNION {answers_for(q) : q \in Range(r.questions)}] :
                        \A i \in 1..Len(r.questions) : u[i] \in answers_for(r.questions[i])}
             /\ option_mapping = EmptyDict
             /\ uploaded_file = None
             /\ load_out = None
             /\ rerun_pending = FALSE

NextSubmit == SubmitQuiz \/ Rerun

\* the "Submit Quiz" button on every such session
SpecSubmit == InitSubmit /\ [][NextSubmit]_vars

----------------------------------------------------------------------------
(* The Load Quiz Set page alone *)

\* files that load (three different pools) and files that do not: a column
\* missing, no valid row, no row at all, no column at all
RegistryUploads ==
    {file(required_columns, <<ExampleRow1, ExampleRow2>>),
     file(required_columns, <<PaddedRow>>),
     file([i \in 1..7 |-> required_columns[8 - i]], <<ExampleRow2>>),
     file(without_column(4), <<ExampleRow1>>),
     file(required_columns, <<with_cell(ExampleRow1, 4, <<Sp>>)>>),
     file(required_columns, <<>>),
     file(<<>>, <<ExampleRow1>>)}

NextRegistry ==
    \/ \E content \in RegistryUploads : Upload(content)
    \/ \E class_name \in ClassNames : LoadQuestions(class_name)

\* files uploaded and loaded under two class names, in any order
SpecRegistry == Init /\ [][NextRegistry]_vars

----------------------------------------------------------------------------
(* The manager's methods called directly *)

\* lines 352-362 with arguments the widgets do not restrict: start_quiz is
\* called, and the session is replaced when it returns True
StartCall(class_name, selected_chapters, num_questions) ==
    /\ class_name \in DOMAIN quizzes
    /\ selected_chapters # <<>>
    /\ \E r \in start_quiz(class_name, selected_chapters, num_questions,
                           quizzes[class_name]) :
          /\ current_stats' = r.stats
          /\ aliased' = {}
          /\ quizzes' = [quizzes EXCEPT ![class_name] = r.chapter_questions]
          /\ IF r.ok
             THEN /\ current_quiz' = r.questions
                  /\ quiz_started' = TRUE
                  /\ quiz_completed' = FALSE
                  /\ current_question' = 0
                  /\ user_answers' = [i \in 1..Len(r.questions) |-> None]
                  /\ rerun_pending' = TRUE
             ELSE UNCHANGED <<current_quiz, quiz_started, quiz_completed,
                              current_question, user_answers, rerun_pending>>
    /\ load_out' = None
    /\ UNCHANGED <<history, option_mapping, uploaded_file>>

\* quiz_manager.submit_answer(q, answer, i) for the question at position i of
\* the session
SubmitAnswerCall(i, user_answer) ==
    /\ current_stats.total_questions < MaxCalls
    /\ i \in 1..Len(current_quiz)
    /\ LET after == submit_answer(Self, current_quiz[i], user_answer, i).self
       IN  /\ history' = after.history
           /\ current_stats' = after.current_stats
           /\ aliased' = after.aliased
    /\ load_out' = None
    /\ UNCHANGED <<quizzes, session_vars, uploaded_file, rerun_pending>>

\* quiz_manager.save_quiz_session()
SaveCall ==
    /\ Len(history) < MaxSaved
    /\ LET after == save_quiz_session(Self).self
       IN  /\ history' = after.history
           /\ current_stats' = after.current_stats
           /\ aliased' = after.aliased
    /\ load_out' = None
    /\ UNCHANGED <<quizzes, session_vars, uploaded_file, rerun_pending>>

\* the chapters a caller names: those of the pool and one it does not hold
CallSelections ==
    {<<<<"Ch1">>>>, <<<<"Ch2">>, <<"Ch1">>>>, <<<<"Ch9">>>>, <<<<"Ch9">>, <<"Ch2">>>>}

\* "A" is the correct answer of the questions of Ch1, "B" of none
CallAnswers == {<<"A">>, <<"B">>}

InitCalls ==
    /\ quizzes = [c \in {"bio"} |->
                     load_rows(required_columns,
                               <<ExampleRow1, ExampleRow2, PaddedRow>>).pool]
    /\ history = <<>>
    /\ current_stats = initial_stats
    /\ aliased = {}
    /\ current_quiz = None
    /\ current_question = 0
    /\ quiz_started = FALSE
    /\ quiz_completed = FALSE
    /\ user_answers = <<>>
    /\ option_mapping = EmptyDict
    /\ uploaded_file = None
    /\ load_out = None
    /\ rerun_pending = FALSE

NextCalls ==
    \/ \E selected_chapters \in CallSelections, num_questions \in 1..MaxCalls :
          StartCall("bio", selected_chapters, num_questions)
    \/ \E i \in 1..MaxCalls, user_answer \in CallAnswers :
          SubmitAnswerCall(i, user_answer)
    \/ SaveCall

\* start_quiz, submit_answer and save_quiz_session called in any order on one
\* manager
SpecCalls == InitCalls /\ [][NextCalls]_vars

----------------------------------------------------------------------------
(* Claims about load_csv, under SpecLoad *)

\* the text of a cell between its first and its last non-blank character
Trimmed(cell) ==
    LET solid == {i \in 1..Len(cell) : cell[i] # Sp}
    IN  IF solid = {} THEN <<>>
        ELSE SubSeq(cell, CHOOSE i \in solid : \A j \in solid : i <= j,
                          CHOOSE i \in solid : \A j \in solid : i >= j)

HasAllColumns(fieldnames) ==
    \A col \in Range(required_columns) : col \in Range(fieldnames)

\* the cell a line holds in a column of the header (no column name is twice in
\* a header of Headers)
CellAt(fieldnames, row, col) ==
    row[CHOOSE i \in 1..Len(fieldnames) : fieldnames[i] = col]

HoldsText(fieldnames, row, col) ==
    \E i \in 1..Len(fieldnames) :
        /\ fieldnames[i] = col
        /\ i <= Len(row)
        /\ \E k \in 1..Len(row[i]) : row[i][k] # Sp

\* a line whose cell exists and is empty or all blanks in some required column
HasBlankField(fieldnames, row) ==
    \E col \in Range(required_columns), i \in 1..Len(fieldnames) :
        /\ fieldnames[i] = col
        /\ i <= Len(row)
        /\ \A k \in 1..Len(row[i]) : row[i][k] = Sp

IsValidRow(fieldnames, row) ==
    \A col \in Range(required_columns) : HoldsText(fieldnames, row, col)

QuestionOfRow(fieldnames, row) ==
    [chapter        |-> Trimmed(CellAt(fieldnames, row, "Chapter")),
     question_text  |-> Trimmed(CellAt(fieldnames, row, "Question Text")),
     reasoning      |-> Trimmed(CellAt(fieldnames, row, "Reasoning")),
     correct_answer |-> Trimmed(CellAt(fieldnames, row, "Correct_Answer")),
     alternatives   |-> <<Trimmed(CellAt(fieldnames, row, "Alternative_1")),
                          Trimmed(CellAt(fieldnames, row, "Alternative_2")),
                          Trimmed(CellAt(fieldnames, row, "Alternative_3"))>>]

ValidRows(fieldnames, rows) ==
    SelectSeq(rows, LAMBDA row : IsValidRow(fieldnames, row))

\* the questions of the valid rows whose trimmed chapter name is `chapter`
QuestionsUnder(fieldnames, rows, chapter) ==
    LET mine == SelectSeq(ValidRows(fieldnames, rows),
                    LAMBDA row : Trimmed(CellAt(fieldnames, row, "Chapter")) = chapter)
    IN  [i \in 1..Len(mine) |-> QuestionOfRow(fieldnames, mine[i])]

\* the pool holds the valid rows and nothing else: as many questions as valid
\* rows, each chapter once, and under it that chapter's valid rows
HoldsExactlyValidRows(pool, fieldnames, rows) ==
    /\ total_questions_of(pool) = Len(ValidRows(fieldnames, rows))
    /\ \A i, j \in 1..Len(pool) : i # j => pool[i].chapter # pool[j].chapter
    /\ \A i \in 1..Len(pool) :
           pool[i].questions = QuestionsUnder(fieldnames, rows, pool[i].chapter)

Loaded == uploaded_file # None /\ load_out # None
GivenNames == uploaded_file[1].fieldnames[1]
GivenRows == uploaded_file[1].rows
Out == load_out[1]

----------------------------------------------------------------------------
(* Claims about start_quiz, under SpecStart *)

\* the places <<chapter, question>> of a pool that lie in the chosen chapters
UnionOf(pool, selected_chapters) ==
    {e \in (1..Len(pool)) \X (1..total_questions_of(pool)) :
        /\ pool[e[1]].chapter \in Range(selected_chapters)
        /\ e[2] <= Len(pool[e[1]].questions)}

\* no question is more often in the list than the chosen chapters hold it
DrawnWithoutReplacement(list, pool, selected_chapters) ==
    \A q \in Range(list) :
        Cardinality({i \in 1..Len(list) : list[i] = q})
            <= Cardinality({e \in UnionOf(pool, selected_chapters) :
                               pool[e[1]].questions[e[2]] = q})

\* C2: for every pool, every choice of chapters and every count k with
\* 1 <= k <= (questions in the chosen chapters), start succeeds and returns
\* exactly k questions, each one a question of a chosen chapter, no entry of
\* the pool twice.
C2_StartReturnsKDistinct ==
    [][\A selected_chapters \in arrangements(Chapters), k \in 1..MaxPool :
          (/\ StartQuiz("bio", selected_chapters, k)
           /\ 1 <= k
           /\ k <= Cardinality(UnionOf(quizzes["bio"], selected_chapters)))
          => /\ quiz_started'
             /\ Len(current_quiz') = k
             /\ \A i \in 1..Len(current_quiz') :
                    \E e \in UnionOf(quizzes["bio"], selected_chapters) :
                        /\ quizzes["bio"][e[1]].questions[e[2]] = current_quiz'[i]
                        /\ current_quiz'[i].chapter \in Range(selected_chapters)
             /\ DrawnWithoutReplacement(current_quiz', quizzes["bio"], selected_chapters)
      ]_vars

\* two of the three questions of both chapters have been drawn, from a pool
\* that holds one question twice
C2_Witness ==
    /\ quiz_started
    /\ rerun_pending
    /\ Len(current_quiz) = 2
    /\ current_stats.selected_chapters = Some(<<<<"Ch2">>, <<"Ch1">>>>)
    /\ total_questions_of(quizzes["bio"]) = 3
    /\ Len(quizzes["bio"][1].questions) = 2
    /\ quizzes["bio"][1].questions[1] = quizzes["bio"][1].questions[2]

----------------------------------------------------------------------------
(* Claims about scoring and saving, under SpecSubmit *)

Positions == 1..Len(current_quiz)

Answered == {i \in Positions : user_answers[i] # None}

AnsweredRight ==
    {i \in Answered : user_answers[i][1] = current_quiz[i].correct_answer}

LastEntry == history[Len(history)]

\* the record of a missed question: the question, the answer given, its place
MissedRecord(question, user_answer, position) ==
    [chapter         |-> question.chapter,
     question_text   |-> question.question_text,
     reasoning       |-> question.reasoning,
     correct_answer  |-> question.correct_answer,
     alternatives    |-> question.alternatives,
     user_answer     |-> user_answer,
     question_number |-> position]

\* C1: after a session of size k >= 1 with every position answered, m of the
\* answers equal to the question's correct_answer, has been submitted, the
\* accumulator holds total_questions = k, correct_answers = m and k - m
\* missed questions, and the history entry saved for it has
\* percentage = m/k*100, that is percentage * k = 100 * m.
C1_FullSessionTotals ==
    (quiz_completed /\ Answered = Positions)
    => /\ Len(current_quiz) >= 1
       /\ current_stats.total_questions = Len(current_quiz)
       /\ current_stats.correct_answers = Cardinality(AnsweredRight)
       /\ Len(current_stats.missed_questions)
              = Len(current_quiz) - Cardinality(AnsweredRight)
       /\ history # <<>>
       /\ LastEntry.percentage[1] * Len(current_quiz)
              = 100 * Cardinality(AnsweredRight) * LastEntry.percentage[2]

\* a session of three questions, one of them answered right, was submitted
C1_Witness ==
    /\ quiz_completed
    /\ Len(current_quiz) = 3
    /\ Answered = Positions
    /\ Cardinality(AnsweredRight) = 1
    /\ Len(history) = 1

\* C3: saveSession called with total_questions = 0 returns false and leaves
\* the history unchanged; called with total_questions > 0 it returns true and
\* appends exactly one entry whose total_questions, correct_answers, count of
\* missed questions, class name and selected chapters are the accumulator's
\* at the time of the call.  (The call is made on every manager reached; the
\* call "Submit Quiz" makes has left its entry as the last of the history.)
C3_SaveSession ==
    LET saved == save_quiz_session(Self)
        after == saved.self.history
    IN  /\ current_stats.total_questions = 0
              => saved.ret = "False" /\ after = history
        /\ current_stats.total_questions > 0
              => /\ saved.ret = "True"
                 /\ Len(after) = Len(history) + 1
                 /\ SubSeq(after, 1, Len(history)) = history
                 /\ after[Len(after)].total_questions = current_stats.total_questions
                 /\ after[Len(after)].correct_answers = current_stats.correct_answers
                 /\ after[Len(after)].missed_questions
                        = Len(current_stats.missed_questions)
                 /\ Some(after[Len(after)].class_name) = current_stats.class_name
                 /\ Some(after[Len(after)].selected_chapters)
                        = current_stats.selected_chapters
        /\ quiz_completed
              => /\ Len(history) = 1
                 /\ LastEntry.total_questions = current_stats.total_questions
                 /\ LastEntry.correct_answers = current_stats.correct_answers
                 /\ LastEntry.missed_questions = Len(current_stats.missed_questions)
                 /\ Some(LastEntry.class_name) = current_stats.class_name
                 /\ Some(LastEntry.selected_chapters) = current_stats.selected_chapters
        /\ ~quiz_completed => history = <<>>

\* "Submit Quiz" has saved a session of two scored answers, one of them missed
C3_Witness ==
    /\ quiz_completed
    /\ Len(history) = 1
    /\ LastEntry.total_questions = 2
    /\ LastEntry.missed_questions = 1
    /\ current_stats.total_questions = 2

\* C4: submitAnswer(question, user_answer, position) returns true exactly
\* when user_answer is the same string as question.correct_answer; for any
\* other non-null answer it returns false and appends exactly one record (the
\* question, that answer, that position) to missed_questions; a correct
\* answer appends nothing.  (The call is made for every question of the
\* session with every answer of answers_for; the calls "Submit Quiz" made
\* have left one record for each answer that differs, none for the others.)
C4_SubmitAnswer ==
    /\ \A i \in Positions : \A slot \in answers_for(current_quiz[i]) \ {None} :
          LET call   == submit_answer(Self, current_quiz[i], slot[1], i)
              before == current_stats.missed_questions
              after  == call.self.current_stats.missed_questions
          IN  /\ call.is_correct <=> (slot[1] = current_quiz[i].correct_answer)
              /\ call.is_correct => after = before
              /\ ~call.is_correct
                    => after = Append(before, MissedRecord(current_quiz[i], slot[1], i))
    /\ quiz_completed =>
          \A i \in Answered :
              LET mine == {n \in 1..Len(current_stats.missed_questions) :
                              current_stats.missed_questions[n].question_number = i}
              IN  IF i \in AnsweredRight THEN mine = {}
                  ELSE /\ Cardinality(mine) = 1
                       /\ \A n \in mine :
                              current_stats.missed_questions[n]
                                  = MissedRecord(current_quiz[i], user_answers[i][1], i)

\* a submitted session in which the correct answer with a blank before it was
\* given and counted as missed, beside an answer that was right
C4_Witness ==
    /\ quiz_completed
    /\ \E i \in Answered :
          /\ user_answers[i][1] = <<Sp>> \o current_quiz[i].correct_answer
          /\ \E n \in 1..Len(current_stats.missed_questions) :
                 current_stats.missed_questions[n].question_number = i
    /\ AnsweredRight # {}

\* the positions of `from` on that hold an answer that differs from the
\* correct one, in increasing order
RECURSIVE MissedFrom(_)
MissedFrom(from) ==
    IF from > Len(current_quiz) THEN <<>>
    ELSE (IF from \in Answered \ AnsweredRight
          THEN <<MissedRecord(current_quiz[from], user_answers[from][1], from)>>
          ELSE <<>>) \o MissedFrom(from + 1)

\* C10: on submit exactly the positions that hold a recorded answer are
\* forwarded to submitAnswer, each once, in increasing position order and
\* numbered from 1; a position still unanswered is skipped: it adds nothing
\* to total_questions, to chapter_stats or to missed_questions.
C10_SubmitSkipsUnanswered ==
    quiz_completed
    => /\ current_stats.total_questions = Cardinality(Answered)
       /\ current_stats.correct_answers = Cardinality(AnsweredRight)
       /\ current_stats.missed_questions = MissedFrom(1)
       /\ DOMAIN current_stats.chapter_stats
              = {current_quiz[i].chapter : i \in Answered}
       /\ \A c \in DOMAIN current_stats.chapter_stats :
              /\ current_stats.chapter_stats[c].asked
                     = Cardinality({i \in Answered : current_quiz[i].chapter = c})
              /\ current_stats.chapter_stats[c].correct
                     = Cardinality({i \in AnsweredRight : current_quiz[i].chapter = c})

\* a session of three questions was submitted with its first position
\* unanswered and its second answered wrong; the chapter of the first
\* question was asked nowhere else
C10_Witness ==
    /\ quiz_completed
    /\ Len(current_quiz) = 3
    /\ user_answers[1] = None
    /\ 2 \in Answered \ AnsweredRight
    /\ current_quiz[1].chapter \notin DOMAIN current_stats.chapter_stats
    /\ current_stats.total_questions = 2

----------------------------------------------------------------------------
(* Claims about a session taken through the pages, under Spec *)

ExampleQ1 == QuestionOfRow(required_columns, ExampleRow1)

ExampleQ2 == QuestionOfRow(required_columns, ExampleRow2)

\* the session of the example has been submitted: both questions of the
\* pool loaded from the two rows, in some order, Q1 answered "A", Q2 "Y"
ExampleSessionSubmitted ==
    /\ quiz_completed
    /\ Len(current_quiz) = 2
    /\ Range(current_quiz) = {ExampleQ1, ExampleQ2}
    /\ current_stats.selected_chapters # None
    /\ Range(current_stats.selected_chapters[1]) = {<<"Ch1">>, <<"Ch2">>}
    /\ \A i \in 1..2 :
          user_answers[i] = Some(IF current_quiz[i] = ExampleQ1
                                 THEN <<"A">> ELSE <<"Y">>)

\* C8, as the specification states it: the session of the example ends,
\* after submission, with correct_answers = 2 and percentage = 100.
C8_ExampleAsStated ==
    ExampleSessionSubmitted
    => /\ current_stats.correct_answers = 2
       /\ history # <<>>
       /\ LastEntry.percentage = <<100, 1>>

\* C8, amended: with the fields in the order Chapter, Question Text,
\* Reasoning, Correct_Answer, Alternative_1..3, the correct answer of Q2 is
\* "X" and "Y" is its first alternative, so the session of the example ends,
\* after submission, with total_questions = 2, correct_answers = 1, one
\* missed question (Q2, answered "Y") and percentage = 50.
C8_ExampleScoresHalf ==
    ExampleSessionSubmitted
    => /\ current_stats.total_questions = 2
       /\ current_stats.correct_answers = 1
       /\ Len(current_stats.missed_questions) = 1
       /\ current_stats.missed_questions[1].question_text = <<"Q2?">>
       /\ current_stats.missed_questions[1].user_answer = <<"Y">>
       /\ history # <<>>
       /\ LastEntry.percentage = <<50, 1>>

\* the session of the example has been submitted and saved, Q2 shown first
C8_Witness ==
    /\ ExampleSessionSubmitted
    /\ current_quiz[1] = ExampleQ2
    /\ history # <<>>
    /\ LastEntry.total_questions = 2

\* C9, as the specification states it: the order in which the options of a
\* position are shown is computed on the first view of the position only;
\* every later run of the page within the session (an option picked,
\* previous, next, the rerun after either) shows the position's options in
\* the order it already has.
C9_OptionOrderCached ==
    [][(SelectAnswer \/ PreviousQuestion \/ NextQuestion \/ Rerun)
           => \A p \in DOMAIN option_mapping :
                  /\ p \in DOMAIN option_mapping'
                  /\ option_mapping'[p] = option_mapping[p]]_vars

----------------------------------------------------------------------------
(* Claims about the pool of a class, under SpecStart *)

\* C16: a start, with any chapters and any count, leaves the loaded pool as
\* it was: every chapter of the class maps to the same questions in the same
\* order as before the call, while the session holds its own shuffled and
\* truncated sequence.
C16_StartLeavesPool ==
    [][\A selected_chapters \in arrangements(Chapters), k \in 1..MaxPool :
          StartQuiz("bio", selected_chapters, k)
          => /\ DOMAIN quizzes' = DOMAIN quizzes
             /\ Len(quizzes'["bio"]) = Len(quizzes["bio"])
             /\ \A c \in 1..Len(quizzes["bio"]) :
                    /\ quizzes'["bio"][c].chapter = quizzes["bio"][c].chapter
                    /\ quizzes'["bio"][c].questions = quizzes["bio"][c].questions
      ]_vars

\* a session of two questions was started whose first question is not the
\* first of the pool, and the pool still has its three questions in two
\* chapters
C16_Witness ==
    /\ quiz_started
    /\ Len(current_quiz) = 2
    /\ Len(quizzes["bio"]) = 2
    /\ total_questions_of(quizzes["bio"]) = 3
    /\ current_quiz[1] # quizzes["bio"][1].questions[1]
    /\ current_quiz[1].chapter = quizzes["bio"][1].chapter

----------------------------------------------------------------------------
(* Claims about the manager's methods, under SpecCalls *)

\* start_quiz was called for chapters that hold no question of the pool
FailedStart ==
    \E selected_chapters \in CallSelections, num_questions \in 1..MaxCalls :
        /\ StartCall("bio", selected_chapters, num_questions)
        /\ total_available_of(selected_chapters, quizzes["bio"]) = 0

\* what a failed start does keep: it leaves the question
\* sequence, the position, the answer slots and the flags as they were
FailedStartKeepsSession ==
    [][FailedStart => UNCHANGED session_vars]_vars

\* C11, as the specification states it: a start that fails leaves the
\* session (questions, position, answer slots, started and completed flags)
\* as before the call and writes nothing of the failed request into the
\* manager: class name, selected chapters, statistics and missed questions
\* are those of before the call.
C11_FailedStartLeavesNoTrace ==
    [][FailedStart => /\ UNCHANGED session_vars
                      /\ current_stats' = current_stats]_vars

----------------------------------------------------------------------------
(* Claims about the class registry, under SpecRegistry *)

\* the uploaded file cannot be loaded: a required column is missing from its
\* header, or none of its rows is valid
LoadMustFail ==
    \/ ~HasAllColumns(GivenNames)
    \/ ValidRows(GivenNames, GivenRows) = <<>>

\* C12: a load that fails (missing columns, no valid questions) leaves the
\* class registry exactly as it was: every loaded class keeps its pool and no
\* class name is added.  A load that succeeds adds the class name or replaces
\* that name's pool by the loaded one, and changes no other class; nothing
\* else on the page changes the registry.
C12_RegistryChangesOnSuccessOnly ==
    [][/\ \A class_name \in ClassNames :
              LoadQuestions(class_name)
              => /\ load_out' # None
                 /\ load_out'[1].ok <=> ~LoadMustFail
                 /\ ~load_out'[1].ok => quizzes' = quizzes
                 /\ load_out'[1].ok
                       => /\ DOMAIN quizzes' = DOMAIN quizzes \cup {class_name}
                          /\ quizzes'[class_name] = load_out'[1].pool
                          /\ HoldsExactlyValidRows(quizzes'[class_name],
                                                   GivenNames, GivenRows)
                          /\ \A c \in DOMAIN quizzes \ {class_name} :
                                 quizzes'[c] = quizzes[c]
       /\ (\E content \in RegistryUploads : Upload(content))
              => quizzes' = quizzes
       /\ DOMAIN quizzes \subseteq DOMAIN quizzes'
      ]_vars

\* with two classes loaded, a file without a valid row has just failed to
\* load, and both classes hold their pools
C12_Witness ==
    /\ DOMAIN quizzes = {"bio", "chem"}
    /\ Loaded
    /\ ~Out.ok
    /\ Out.error = "No valid questions found in CSV file."
    /\ total_questions_of(quizzes["bio"]) = 2
    /\ total_questions_of(quizzes["chem"]) = 1

----------------------------------------------------------------------------
(* Claims about sessions following one another, under Spec *)

AccumulatorEmpty ==
    /\ current_stats.total_questions = 0
    /\ current_stats.correct_answers = 0
    /\ current_stats.chapter_stats = EmptyDict
    /\ current_stats.missed_questions = <<>>

\* C13: the missed questions shown and exported are those of the most
\* recently started session only.  While a session is in progress (started,
\* not yet submitted) the accumulator is empty: total_questions = 0,
\* correct_answers = 0, no chapter_stats, no missed_questions; once it is
\* submitted the missed questions are exactly the records of its own wrongly
\* answered positions; before the first start there are none.
C13_MissedOfLatestSessionOnly ==
    /\ quiz_started => AccumulatorEmpty /\ missed_questions_shown = <<>>
    /\ quiz_completed => missed_questions_shown = MissedFrom(1)
    /\ (~quiz_started /\ ~quiz_completed) => missed_questions_shown = <<>>

\* a second session is in progress after a first one that was saved with
\* both of its answers missed
C13_Witness ==
    /\ Len(history) = 1
    /\ history[1].missed_questions = 2
    /\ quiz_started
    /\ ~rerun_pending
    /\ user_answers[1] # None
    /\ missed_questions_shown = <<>>

----------------------------------------------------------------------------
(* Claims about the session in progress, under Spec *)

\* the answer slots other than that of the position shown are left alone,
\* and the slot of the position shown holds an answer
RecordsShownPositionOnly ==
    /\ Len(user_answers') = Len(user_answers)
    /\ user_answers'[current_question + 1] # None
    /\ \A i \in 1..Len(user_answers) :
           i # current_question + 1 => user_answers'[i] = user_answers[i]
    /\ UNCHANGED <<current_quiz, quiz_started, quiz_completed>>

\* C14: in every state of a session in progress with k questions the
\* position p satisfies 0 <= p <= k - 1 and there are k answer slots;
\* previous is taken only with p > 0 and makes the position p - 1; next is
\* taken only with p < k - 1 and makes it p + 1; recording an answer changes
\* only the slot of the position shown, leaves the position, and recording
\* the answer the slot already holds leaves the slots as they are.
C14_PositionAndSlots ==
    [][/\ quiz_started'
             => /\ 0 <= current_question'
                /\ current_question' <= Len(current_quiz') - 1
                /\ Len(user_answers') = Len(current_quiz')
       /\ PreviousQuestion
             => /\ current_question > 0
                /\ current_question' = current_question - 1
                /\ RecordsShownPositionOnly
       /\ NextQuestion
             => /\ current_question < Len(current_quiz) - 1
                /\ current_question' = current_question + 1
                /\ RecordsShownPositionOnly
       /\ SelectAnswer
             => /\ current_question' = current_question
                /\ RecordsShownPositionOnly
                /\ user_answers'[current_question + 1] = user_answers[current_question + 1]
                       => user_answers' = user_answers
      ]_vars

\* a session of two questions is back at its first position, after next and
\* previous, with both slots holding an answer
C14_Witness ==
    /\ quiz_started
    /\ ~rerun_pending
    /\ Len(current_quiz) = 2
    /\ current_question = 0
    /\ user_answers[1] # None
    /\ user_answers[2] # None

\* C15: submit is taken only from a session in progress at its last
\* position, and leaves the session completed and not in progress.  A
\* completed session is terminal: no previous, next, recording of an answer
\* or second submit acts on it, its questions, position, answers, statistics
\* and the history stay as they are (it is scored and saved at most once),
\* until a new start succeeds; a session that comes to be in progress is at
\* position 0 with every slot unanswered and an empty accumulator.
C15_SubmitOnceThenTerminal ==
    [][/\ SubmitQuiz
             => /\ quiz_started /\ ~quiz_completed
                /\ current_question = Len(current_quiz) - 1
                /\ quiz_completed' /\ ~quiz_started'
                /\ Len(history') <= Len(history) + 1
       /\ quiz_completed' => ~quiz_started'
       /\ quiz_completed
             => /\ ~(PreviousQuestion \/ NextQuestion \/ SelectAnswer \/ SubmitQuiz)
                /\ \/ UNCHANGED <<current_quiz, current_question, user_answers,
                                  quiz_started, quiz_completed, history,
                                  current_stats>>
                   \/ /\ quiz_started' /\ ~quiz_completed'
                      /\ history' = history
       /\ (quiz_started' /\ (~quiz_started \/ current_stats' # current_stats))
             => /\ ~quiz_completed'
                /\ current_question' = 0
                /\ \A i \in 1..Len(user_answers') : user_answers'[i] = None
                /\ Len(user_answers') = Len(current_quiz')
                /\ AccumulatorEmpty'
      ]_vars

\* a second session has been submitted, started from the completed first
C15_Witness ==
    /\ quiz_completed
    /\ ~quiz_started
    /\ ~rerun_pending
    /\ Len(history) = 2
    /\ current_stats.total_questions = Len(current_quiz)

----------------------------------------------------------------------------
(* Claims about the history and the accumulator, under SpecCalls *)

\* C17, as the specification states it: a history entry is immutable once
\* appended: whatever is called afterwards (start, submitAnswer,
\* saveSession), every entry of the history is still there, at its place,
\* with the field values it had, the asked/correct counts of each chapter of
\* its chapter_stats and its selected chapters included.
C17_HistoryEntriesImmutable ==
    [][/\ Len(history') >= Len(history)
       /\ \A i \in 1..Len(history) : history'[i] = history[i]]_vars

\* what does hold of an entry once appended: everything but the counts of
\* its chapter_stats stays as it was
HistoryEntriesKeepTotals ==
    [][/\ Len(history') >= Len(history)
       /\ \A i \in 1..Len(history) :
              [history'[i] EXCEPT !.chapter_stats = EmptyDict]
                  = [history[i] EXCEPT !.chapter_stats = EmptyDict]]_vars

----------------------------------------------------------------------------
(* Claims about what reaches the history, under Spec *)

\* C18: the history grows only by submitting a session.  A submit that has
\* scored at least one answer appends exactly one entry behind the entries
\* already there, a submit that has scored none appends nothing, and no other
\* step (upload, load, start, previous, next, recording an answer, a rerun)
\* changes the history: a session abandoned or replaced by a new start leaves
\* no entry, and the entries are as many as the submitted sessions with a
\* scored answer.
C18_HistoryGrowsBySubmitOnly ==
    [][/\ SubmitQuiz
             => IF current_stats'.total_questions >= 1
                THEN /\ Len(history') = Len(history) + 1
                     /\ SubSeq(history', 1, Len(history)) = history
                     /\ history'[Len(history')].total_questions
                            = current_stats'.total_questions
                ELSE history' = history
       /\ ~SubmitQuiz => history' = history
      ]_vars

\* a session that had shown its second question was replaced by a new start
\* without having been submitted, and the history is empty
C18_Witness ==
    /\ quiz_started
    /\ rerun_pending
    /\ current_question = 0
    /\ \A i \in 1..Len(user_answers) : user_answers[i] = None
    /\ 1 \in DOMAIN option_mapping
    /\ history = <<>>

\* the sum of f over the set S of its arguments
RECURSIVE SumOver(_, _)
SumOver(f, S) ==
    IF S = {} THEN 0
    ELSE LET x == CHOOSE x \in S : TRUE IN f[x] + SumOver(f, S \ {x})

\* the missed records of a chapter
MissedIn(chapter) ==
    {n \in 1..Len(current_stats.missed_questions) :
        current_stats.missed_questions[n].chapter = chapter}

AccumulatorConsistent ==
    LET chapter_stats == current_stats.chapter_stats
    IN  /\ current_stats.correct_answers <= current_stats.total_questions
        /\ current_stats.total_questions
               = current_stats.correct_answers + Len(current_stats.missed_questions)
        /\ \A c \in DOMAIN chapter_stats :
               /\ chapter_stats[c].correct <= chapter_stats[c].asked
               /\ chapter_stats[c].asked >= 1
               /\ chapter_stats[c].asked - chapter_stats[c].correct
                      = Cardinality(MissedIn(c))
        /\ \A n \in 1..Len(current_stats.missed_questions) :
               current_stats.missed_questions[n].chapter \in DOMAIN chapter_stats
        /\ SumOver([c \in DOMAIN chapter_stats |-> chapter_stats[c].asked],
                   DOMAIN chapter_stats) = current_stats.total_questions
        /\ SumOver([c \in DOMAIN chapter_stats |-> chapter_stats[c].correct],
                   DOMAIN chapter_stats) = current_stats.correct_answers

\* C19: in every state reached by start and submitAnswer calls the
\* accumulator is consistent: correct_answers <= total_questions,
\* total_questions = correct_answers + number of missed questions, for every
\* chapter correct <= asked, the asked counts sum to total_questions and the
\* correct counts to correct_answers; a chapter has an entry exactly when a
\* question of it was scored since the last start: a start leaves no entry,
\* scoring a question adds its chapter's entry and no other, and every entry
\* has asked >= 1.
C19_AccumulatorConsistent ==
    [][/\ AccumulatorConsistent
       /\ AccumulatorConsistent'
       /\ \A i \in 1..MaxCalls, user_answer \in CallAnswers :
              SubmitAnswerCall(i, user_answer)
              => /\ DOMAIN current_stats'.chapter_stats
                        = DOMAIN current_stats.chapter_stats
                              \cup {current_quiz[i].chapter}
                 /\ current_stats'.total_questions
                        = current_stats.total_questions + 1
       /\ \A selected_chapters \in CallSelections, num_questions \in 1..MaxCalls :
              StartCall("bio", selected_chapters, num_questions)
              => AccumulatorEmpty'
      ]_vars

\* two answers were scored since the last start, a right one in Ch1 and a
\* wrong one in Ch2, after an earlier session had been saved
C19_Witness ==
    /\ Len(history) = 1
    /\ current_stats.total_questions = 2
    /\ current_stats.correct_answers = 1
    /\ DOMAIN current_stats.chapter_stats = {<<"Ch1">>, <<"Ch2">>}
    /\ current_stats.chapter_stats[<<"Ch2">>] = [asked |-> 1, correct |-> 0]
    /\ history[1].chapter_stats # current_stats.chapter_stats

----------------------------------------------------------------------------
(* Claims about the answers a submit finds, under Spec *)

\* C20: through the pages no position is unanswered when submit fires.
\* While a session is in progress every position before the one shown holds
\* an answer, and so does the one shown once its page has run; a submitted
\* session of k questions has all k slots answered and k answers scored, and
\* the history entry saved for it has total_questions = k.
C20_NoUnansweredAtSubmit ==
    /\ quiz_started
          => /\ \A i \in 1..current_question : user_answers[i] # None
             /\ ~rerun_pending => user_answers[current_question + 1] # None
    /\ quiz_completed
          => /\ Len(user_answers) = Len(current_quiz)
             /\ \A i \in 1..Len(current_quiz) : user_answers[i] # None
             /\ current_stats.total_questions = Len(current_quiz)
             /\ history # <<>>
             /\ LastEntry.total_questions = Len(current_quiz)

\* a session of two questions has been submitted, one answer right and one
\* wrong, and saved with total_questions = 2
C20_Witness ==
    /\ quiz_completed
    /\ Len(current_quiz) = 2
    /\ current_stats.correct_answers = 1
    /\ Len(missed_questions_shown) = 1
    /\ LastEntry.total_questions = 2
    /\ LastEntry.missed_questions = 1

----------------------------------------------------------------------------
(* Claims about the Quiz History page, under Spec *)

\* an entry of the history whose formatted percentage is the Best Score shown
ShownAsBest ==
    CHOOSE j \in 1..Len(history) :
        format_percentage(history[j].percentage) = best_score(history)

\* C21, as the specification states it: for every non-empty history the
\* "Best Score" of the Quiz History page is the highest percentage recorded:
\* no entry has a numerically larger percentage (to the tenth shown) than
\* the one displayed.
C21_BestScoreIsHighest ==
    history # <<>>
    => \A i \in 1..Len(history) :
           tenths_of(history[i].percentage)
               <= tenths_of(history[ShownAsBest].percentage)

\* what does hold of the Best Score: it is the formatted percentage of an
\* entry, and no entry's formatted percentage is a greater string
BestScoreIsGreatestString ==
    history # <<>>
    => /\ \E j \in 1..Len(history) :
              format_percentage(history[j].percentage) = best_score(history)
       /\ \A i \in 1..Len(history) :
              ~str_lt(best_score(history),
                      format_percentage(history[i].percentage))

====
